---- MODULE Spec2Model ----
(***************************************************************************)
(* Render orchestration of rust-fractal-gui (src/src/main.rs).              *)
(*                                                                          *)
(* Three kinds of thread are modelled:                                      *)
(*   - the druid UI thread running FractalWidget::event, one handler at a   *)
(*     time, with its internal command queue (ctx.submit_command) drained   *)
(*     before any other event;                                              *)
(*   - the worker thread running testing_renderer;                          *)
(*   - one sampler thread per render, spawned by the worker.                *)
(* Shared state: the settings and renderer mutexes, the stop flag, the      *)
(* mpsc channel to the worker and the ExtEventSink queue to the UI.         *)
(***************************************************************************)
EXTENDS Integers, Sequences, FiniteSets, TLC

\* ------------------------------------------------------------------ bounds

\* user events (clicks, key presses, button commands) in one behaviour
MaxIntents == 2
\* of these, the set_location submissions with edited text boxes
MaxSetLocation == 1
\* sampler snapshots waiting, unhandled, in the UI's external event queue
MaxPending == 1
\* width of the stop counter (usize in the program), scaled down
UsizeBits == 4

RECURSIVE Pow2(_)
Pow2(n) == IF n = 0 THEN 1 ELSE 2 * Pow2(n - 1)

UsizeModulus == Pow2(UsizeBits)

\* ------------------------------------------------------- values and strings

\* A FloatExtended: mantissa (in quarters, so 4 is 1.0 and 6 is 1.5) * 2^exponent.
\* reduce() brings the mantissa back into [1, 2).
RECURSIVE Reduce(_)
Reduce(z) ==
    IF z.mantissa >= 8 /\ z.mantissa % 2 = 0
        THEN Reduce([mantissa |-> z.mantissa \div 2, exponent |-> z.exponent + 1])
    ELSE IF z.mantissa < 4
        THEN Reduce([mantissa |-> z.mantissa * 2, exponent |-> z.exponent - 1])
    ELSE z

\* A zoom string "<m>E<e>" or "<m>e<e>": digits m (quarters), exponent e, and the
\* case of its exponent letter.
to_uppercase(s) == [s EXCEPT !.upper = TRUE]

string_to_extended(s) == Reduce([mantissa |-> s.m, exponent |-> s.e])

extended_to_string_long(z) == [m |-> z.mantissa, e |-> z.exponent, upper |-> TRUE]

\* zoom.mantissa *= factor, for the two factors the program uses (0.5 and 2.0)
MultiplyMantissa(z, factor) ==
    IF factor = "2.0" THEN [z EXCEPT !.mantissa = z.mantissa * 2]
    ELSE IF z.mantissa % 2 = 0 THEN [z EXCEPT !.mantissa = z.mantissa \div 2]
    ELSE [mantissa |-> z.mantissa, exponent |-> z.exponent - 1]

\* z1 is a deeper zoom (a larger magnification) than z2; both reduced
Deeper(z1, z2) ==
    \/ z1.exponent > z2.exponent
    \/ z1.exponent = z2.exponent /\ z1.mantissa > z2.mantissa

\* f64 rotation strings: parse::<f64>() and f64::to_string()
RotationStrings == {"0", "15", "15.0", "375"}

ParseF64(s) ==
    CASE s = "0" -> 0
      [] s = "15" -> 15
      [] s = "15.0" -> 15
      [] s = "375" -> 375
      [] OTHER -> CHOOSE v \in 0..720 : ToString(v) = s

F64ToString(v) == ToString(v)

\* (rotation % 360.0 + 360.0) % 360.0
NormalizeRotation(rotation) == (((rotation % 360) + 360) % 360)

\* f64::to_radians, in milliradians
ToRadians(d) == (d * 3141593) \div 180000

RealStrings == {"-0.75", "-0.5"}
ImagStrings == {"0.0", "0.1"}
IterationValues == {500, 1000, 2000}
ZoomStrings ==
    { [m |-> 4, e |-> 1, upper |-> TRUE],    \* the start zoom
      [m |-> 4, e |-> 1, upper |-> FALSE],   \* the same, lower-case exponent letter
      [m |-> 8, e |-> 0, upper |-> TRUE],    \* the same value, written differently
      [m |-> 6, e |-> 1, upper |-> TRUE],    \* deeper, same exponent
      [m |-> 4, e |-> 2, upper |-> TRUE],    \* deeper
      [m |-> 4, e |-> 0, upper |-> TRUE] }   \* shallower

\* image sizes (width, height), scaled down
ImageSizes == { <<4, 2>>, <<4, 4>>, <<2, 2>> }

\* (n as f64 * factor) as i64, for the two factors the program uses (0.5 and 2.0)
MultiplySize(n, factor) == IF factor = "2.0" THEN n * 2 ELSE n \div 2

\* f32 texts of the iteration division and palette offset boxes
DivisionStrings == {"1", "2"}
OffsetStrings == {"0", "1", "3"}

ParseF32(s) ==
    CASE s = "0" -> 0
      [] s = "0.0" -> 0
      [] s = "1" -> 1
      [] s = "1.0" -> 1
      [] s = "2" -> 2
      [] s = "3" -> 3

F32ToString(v) == ToString(v)

\* renderer.data_export.palette.len(): the default palette and the one of a file
PaletteLen(p) == IF p = "default" THEN 3 ELSE 2

\* start.toml
StartSettings ==
    [ real |-> "-0.75", imag |-> "0.0",
      zoom |-> [m |-> 4, e |-> 1, upper |-> TRUE],
      iterations |-> 1000, rotate |-> 0,
      image_width |-> 4, image_height |-> 2,
      window_width |-> 8, window_height |-> 4,
      iteration_division |-> 1, palette_offset |-> 0, palette |-> "default" ]

\* a configuration file: the keys it defines and their values
FileOf(keys) ==
    [ keys |-> keys, real |-> "-0.5", imag |-> "0.1",
      zoom |-> [m |-> 4, e |-> 2, upper |-> TRUE], iterations |-> 2000,
      rotate |-> 15, palette |-> "file", iteration_division |-> 2,
      palette_offset |-> 1 ]

LocationKeys == {"real", "imag", "zoom", "iterations", "rotate"}

Files ==
    { FileOf({"palette"}),
      FileOf({"palette", "iteration_division", "palette_offset"}),
      FileOf(LocationKeys),
      FileOf({"zoom", "palette"}),
      FileOf({"iteration_division"}) }

\* FractalRenderer::new(settings): the fields of the renderer the widget reads
FractalRendererNew(s) ==
    [ zoom |-> string_to_extended(to_uppercase(s.zoom)),
      rotate |-> ToRadians(s.rotate),
      maximum_iteration |-> s.iterations,
      data_export_maximum_iteration |-> s.iterations,
      center_reference_zoom |-> string_to_extended(to_uppercase(s.zoom)),
      center_reference_c |-> <<s.real, s.imag>>,
      image_width |-> s.image_width, image_height |-> s.image_height,
      data_export_palette |-> s.palette,
      data_export_iteration_division |-> s.iteration_division,
      data_export_iteration_offset |-> s.palette_offset ]

\* renderer.progress: the counters the sampler reads
ProgressReset == [series_validation |-> 0, glitched_maximum |-> 0]

VARIABLES
    settings,    \* Arc<Mutex<Config>>: the settings store
    renderer,    \* Arc<Mutex<FractalRenderer>>
    progress,    \* the progress counters of the current renderer
    locks,       \* owner of each mutex: "free", "ui" or "worker"
    data,        \* FractalData: the temporaries, temporary_stage, need_full_rerender
    stop_flag,   \* Arc<RelaxedCounter>
    chan,        \* mpsc channel UI -> worker
    extq,        \* ExtEventSink: events submitted by the worker and the samplers
    cmdq,        \* druid's command queue: ctx.submit_command from a handler
    ui,          \* the UI thread: idle, or inside a handler holding the settings lock
    worker,      \* the worker thread: pc, the command it serves, its render number
    rendering,   \* the renders whose render_frame call has not returned
    samplers,    \* the live sampler threads
    connected,   \* Event::WindowConnected has been handled
    nintents,    \* user events so far
    nlocations,  \* set_location submissions with edited text boxes so far
    taint,       \* history: the pending cancel signals were raised with the worker
                 \* "idle" (at recv(), nothing queued) or "busy"; "none" pending
    last,        \* history: the last user intent handled and what it led to
    committed,   \* history: the renderer as the last completed render left it
    reset_buffer \* FractalWidget.reset_buffer: paint copies the image once more

vars == << settings, renderer, progress, locks, data, stop_flag, chan, extq, cmdq,
           ui, worker, rendering, samplers, connected, nintents, nlocations,
           taint, last, committed, reset_buffer >>

NoCommand == [name |-> "none", ty |-> "unit", arg |-> 0, user |-> FALSE]

Command(name, ty, arg) == [name |-> name, ty |-> ty, arg |-> arg, user |-> FALSE]

UserCommand(name, ty, arg) == [name |-> name, ty |-> ty, arg |-> arg, user |-> TRUE]

InitData ==
    [ temporary_real |-> StartSettings.real,
      temporary_imag |-> StartSettings.imag,
      temporary_zoom |-> StartSettings.zoom,
      temporary_iterations |-> StartSettings.iterations,
      temporary_rotation |-> F64ToString(StartSettings.rotate),
      temporary_iteration_division |-> F32ToString(StartSettings.iteration_division),
      temporary_iteration_offset |-> F32ToString(StartSettings.palette_offset),
      temporary_stage |-> 0,
      need_full_rerender |-> FALSE ]

NoIntent ==
    [ name |-> "none", arg |-> 0, settings |-> StartSettings,
      renderer |-> FractalRendererNew(StartSettings), data |-> InitData,
      steps |-> <<>>, sends |-> <<>>, repaints |-> 0 ]

\* main(): the state handed to the launcher and to the worker thread
Init ==
    /\ settings = StartSettings
    /\ renderer = FractalRendererNew(StartSettings)
    /\ progress = ProgressReset
    /\ locks = [settings |-> "free", renderer |-> "free"]
    /\ data = InitData
    /\ stop_flag = 0
    /\ chan = <<>>
    /\ extq = <<>>
    /\ cmdq = <<>>
    /\ ui = [pc |-> "idle", ev |-> NoCommand]
    /\ worker = [pc |-> "recv", cmd |-> "none", rid |-> 0, cancelled |-> FALSE]
    /\ rendering = {}
    /\ samplers = {}
    /\ connected = FALSE
    /\ nintents = 0
    /\ nlocations = 0
    /\ taint = "none"
    /\ last = NoIntent
    /\ committed = FractalRendererNew(StartSettings)
    /\ reset_buffer = FALSE

\* ------------------------------------------------------------ worker thread

\* loop { match reciever.recv() ... }: the worker takes a request only at the top
\* of its loop
WorkerCanRecv_Polling == worker.pc \in {"recv", "render"}

WorkerCanRecv == worker.pc = "recv"

WorkerRecv ==
    /\ WorkerCanRecv
    /\ chan # <<>>
    /\ worker' = [worker EXCEPT !.pc = "lock", !.cmd = Head(chan)]
    /\ chan' = Tail(chan)
    /\ UNCHANGED << settings, renderer, progress, locks, data, stop_flag, extq, cmdq,
                    ui, rendering, samplers, connected, nintents, taint, last,
                    nlocations, committed, reset_buffer >>

\* let mut renderer = thread_renderer.lock().unwrap();
WorkerLock ==
    /\ worker.pc = "lock"
    /\ locks.renderer = "free"
    /\ locks' = [locks EXCEPT !.renderer = "worker"]
    /\ worker' = [worker EXCEPT
                     !.pc = IF worker.cmd = "reset_renderer_full" THEN "new" ELSE "start"]
    /\ UNCHANGED << settings, renderer, progress, data, stop_flag, chan, extq, cmdq,
                    ui, rendering, samplers, connected, nintents, taint, last,
                    nlocations, committed, reset_buffer >>

\* a sampler keeps the counters of the renderer it was spawned for
Freeze(s) == IF s.live THEN [s EXCEPT !.live = FALSE, !.frozen = progress] ELSE s

\* *renderer = FractalRenderer::new(thread_settings.lock().unwrap().clone());
WorkerNew ==
    /\ worker.pc = "new"
    /\ locks.settings = "free"
    /\ renderer' = FractalRendererNew(settings)
    /\ progress' = ProgressReset
    /\ samplers' = { Freeze(s) : s \in samplers }
    /\ worker' = [worker EXCEPT !.pc = "start"]
    /\ UNCHANGED << settings, locks, data, stop_flag, chan, extq, cmdq, ui, rendering,
                    connected, nintents, taint, last,
                    nlocations, committed, reset_buffer >>

\* the counters are cloned and thread::spawn(sampler) returns; the sampler reads
\* the counters of the renderer as they are. `stage` is history: the stage of the
\* latest snapshot the sampler submitted.
WorkerStart ==
    /\ worker.pc = "start"
    /\ worker' = [worker EXCEPT !.pc = "enter", !.rid = worker.rid + 1,
                                !.cancelled = FALSE]
    /\ samplers' = samplers \cup
           { [rid |-> worker.rid + 1, pc |-> "poll", stopped |-> FALSE, live |-> TRUE,
             frozen |-> ProgressReset, stage |-> 0] }
    /\ UNCHANGED << settings, renderer, progress, locks, data, stop_flag, chan, extq,
                    cmdq, ui, rendering, connected, nintents, taint, last,
                    nlocations, committed, reset_buffer >>

\* the progress counters are reset to 0 at the start of each render
RenderEnterCounters(c) == ProgressReset

\* renderer.render_frame(mode, .., Some(stop_flag)) is entered
RenderEnter ==
    /\ worker.pc = "enter"
    /\ worker' = [worker EXCEPT !.pc = "render"]
    /\ rendering' = rendering \cup {worker.rid}
    /\ progress' = RenderEnterCounters(progress)
    /\ UNCHANGED << settings, renderer, locks, data, stop_flag, chan, extq, cmdq, ui,
                    samplers, connected, nintents, taint, last,
                    nlocations, committed, reset_buffer >>

\* render_frame at work: the renderer advances its progress counters
RenderAdvance ==
    /\ worker.pc = "render"
    /\ \/ /\ progress.series_validation < 2
          /\ progress' = [progress EXCEPT !.series_validation = @ + 1]
       \/ /\ progress.series_validation = 2
          /\ progress.glitched_maximum = 0
          /\ progress' = [progress EXCEPT !.glitched_maximum = 1]
    /\ UNCHANGED << settings, renderer, locks, data, stop_flag, chan, extq, cmdq, ui,
                    worker, rendering, samplers, connected, nintents, taint, last,
                    nlocations, committed, reset_buffer >>

\* render_frame reaches a checkpoint with the stop flag raised and returns
RenderCancelled ==
    /\ worker.pc = "render"
    /\ stop_flag >= 1
    /\ worker' = [worker EXCEPT !.pc = "finish", !.cancelled = TRUE]
    /\ rendering' = rendering \ {worker.rid}
    /\ UNCHANGED << settings, renderer, progress, locks, data, stop_flag, chan, extq,
                    cmdq, ui, samplers, connected, nintents, taint, last,
                    nlocations, committed, reset_buffer >>

\* render_frame has iterated every pixel and returns
RenderCompleted ==
    /\ worker.pc = "render"
    /\ progress.series_validation = 2
    /\ worker' = [worker EXCEPT !.pc = "finish"]
    /\ rendering' = rendering \ {worker.rid}
    /\ UNCHANGED << settings, renderer, progress, locks, data, stop_flag, chan, extq,
                    cmdq, ui, samplers, connected, nintents, taint, last,
                    nlocations, committed, reset_buffer >>

ProgressEvent(stage, rid) == [type |-> "update_progress", stage |-> stage, rid |-> rid]

RepaintEvent(rid) == [type |-> "repaint", stage |-> 3, rid |-> rid]

FinalEvents_RepaintFirst(rid) == << RepaintEvent(rid), ProgressEvent(3, rid) >>

\* event_sink.submit_command(update_progress, (3usize, 1.0, ..)); then
\* event_sink.submit_command(repaint, ())
FinalEvents(rid) == << ProgressEvent(3, rid), RepaintEvent(rid) >>

\* tx.send(()); submit update_progress (3, 1.0, ..); submit repaint; the renderer
\* guard is dropped at the end of the match arm
WorkerFinish ==
    /\ worker.pc = "finish"
    /\ samplers' = { IF s.rid = worker.rid THEN [s EXCEPT !.stopped = TRUE] ELSE s
                       : s \in samplers }
    /\ extq' = extq \o FinalEvents(worker.rid)
    /\ locks' = [locks EXCEPT !.renderer = "free"]
    /\ worker' = [worker EXCEPT !.pc = "recv"]
    /\ committed' = IF worker.cancelled THEN committed ELSE renderer
    /\ UNCHANGED << settings, renderer, progress, data, stop_flag, chan, cmdq, ui,
                    rendering, connected, nintents, taint, last,
                    nlocations, reset_buffer >>

\* ----------------------------------------------------------- sampler thread

\* the stage the sampler derives from the counters it reads
SampleStage(c) ==
    IF c.series_validation < 2 THEN 0
    ELSE IF c.glitched_maximum # 0 THEN 2
    ELSE 1

Counters(s) == IF s.live THEN progress ELSE s.frozen

Pending == Cardinality({ i \in 1..Len(extq) :
                           extq[i].type = "update_progress" /\ extq[i].stage # 3 })

SamplerBreaks_Never(s) == FALSE

\* rx.try_recv() is Ok(_) once the worker has done tx.send(())
SamplerBreaks(s) == s.stopped

\* match rx.try_recv(): Ok(_) => break, Err(_) => take a sample
SamplerPoll(s) ==
    /\ s.pc = "poll"
    /\ samplers' = IF SamplerBreaks(s) THEN samplers \ {s}
                   ELSE (samplers \ {s}) \cup {[s EXCEPT !.pc = "sample"]}
    /\ UNCHANGED << settings, renderer, progress, locks, data, stop_flag, chan, extq,
                    cmdq, ui, worker, rendering, connected, nintents, taint, last,
                    nlocations, committed, reset_buffer >>

\* read the counters, submit update_progress, sleep 20 ms; submit_command never
\* blocks: the bound holds back a running sampler only, a stopped one has a last
\* snapshot at most
SamplerSubmit(s) ==
    /\ s.pc = "sample"
    /\ Pending < MaxPending \/ s.stopped
    /\ extq' = Append(extq, ProgressEvent(SampleStage(Counters(s)), s.rid))
    /\ samplers' = (samplers \ {s}) \cup
           {[s EXCEPT !.pc = "poll", !.stage = SampleStage(Counters(s))]}
    /\ UNCHANGED << settings, renderer, progress, locks, data, stop_flag, chan, cmdq,
                    ui, worker, rendering, connected, nintents, taint, last,
                    nlocations, committed, reset_buffer >>

\* ---------------------------------------------------------------- UI thread

\* the UI thread is between two events and its command queue is empty
UIReady == ui.pc = "idle" /\ cmdq = <<>>

UserReady == connected /\ UIReady /\ nintents < MaxIntents

\* Event::WindowConnected
WindowConnected ==
    /\ ~connected
    /\ UIReady
    /\ connected' = TRUE
    /\ chan' = Append(chan, "reset_renderer_full")
    /\ UNCHANGED << settings, renderer, progress, locks, data, stop_flag, extq, cmdq,
                    ui, worker, rendering, samplers, nintents, taint, last,
                    nlocations, committed, reset_buffer >>

\* stop_rendering: if data.temporary_stage != 3 { data.stop_flag.inc(); }
StopRenderingFlag(stage, flag) ==
    IF stage # 3 THEN (flag + 1) % UsizeModulus ELSE flag

HandleStopRendering ==
    /\ UserReady
    /\ nintents' = nintents + 1
    /\ stop_flag' = StopRenderingFlag(data.temporary_stage, stop_flag)
    /\ taint' = IF stop_flag' = stop_flag THEN taint
                ELSE IF worker.pc # "recv" \/ chan # <<>> THEN "busy"
                ELSE IF taint = "none" THEN "idle"
                ELSE taint
    /\ UNCHANGED << settings, renderer, progress, locks, data, chan, extq, cmdq, ui,
                    worker, rendering, samplers, connected, last,
                    nlocations, committed, reset_buffer >>

RepaintFlag_MaxValueOnly(flag) ==
    IF flag >= 1 THEN (flag + ((UsizeModulus - 1) - flag)) % UsizeModulus ELSE flag

\* repaint: data.stop_flag.add(usize::max_value() - data.stop_flag.get() + 1)
RepaintFlag(flag) ==
    IF flag >= 1 THEN (flag + ((UsizeModulus - 1) - flag + 1)) % UsizeModulus ELSE flag

RepaintNeedFull(flag) == flag >= 1

Repaint ==
    /\ stop_flag' = RepaintFlag(stop_flag)
    /\ data' = [data EXCEPT !.need_full_rerender = RepaintNeedFull(stop_flag)]
    /\ taint' = IF RepaintNeedFull(stop_flag) THEN taint ELSE "none"
    /\ reset_buffer' = TRUE

\* repaint submitted by the worker
HandleRepaintExt ==
    /\ UIReady
    /\ extq # <<>>
    /\ Head(extq).type = "repaint"
    /\ extq' = Tail(extq)
    /\ Repaint
    /\ UNCHANGED << settings, renderer, progress, locks, chan, cmdq, ui, worker,
                    rendering, samplers, connected, nintents, last,
                    nlocations, committed >>

\* repaint submitted by a handler of the widget
HandleRepaintCmd ==
    /\ ui.pc = "idle"
    /\ cmdq # <<>>
    /\ Head(cmdq).name = "repaint"
    /\ cmdq' = Tail(cmdq)
    /\ Repaint
    /\ UNCHANGED << settings, renderer, progress, locks, chan, extq, ui, worker,
                    rendering, samplers, connected, nintents, last,
                    nlocations, committed >>

\* update_progress: data.temporary_stage = *stage
HandleUpdateProgress ==
    /\ UIReady
    /\ extq # <<>>
    /\ Head(extq).type = "update_progress"
    /\ extq' = Tail(extq)
    /\ data' = [data EXCEPT !.temporary_stage = Head(extq).stage]
    /\ UNCHANGED << settings, renderer, progress, locks, stop_flag, chan, cmdq, ui,
                    worker, rendering, samplers, connected, nintents, taint, last,
                    nlocations, committed, reset_buffer >>

Accepted_Always(d) == TRUE

\* "If the rendering has not completed, stop": the event is ignored unless
\* temporary_stage is 3
Accepted(d) == d.temporary_stage = 3

\* the gate, then `let mut settings = data.settings.lock().unwrap();`
\* d is FractalData as the lens bindings (the text boxes) left it
BeginGated(c, d) ==
    /\ data' = d
    /\ IF Accepted(d)
         THEN /\ ui' = [pc |-> "locked", ev |-> c]
              /\ locks' = [locks EXCEPT !.settings = "ui"]
         ELSE /\ ui' = ui
              /\ locks' = locks

\* a command submitted by a handler comes back to the widget
UIChainCommand ==
    /\ ui.pc = "idle"
    /\ cmdq # <<>>
    /\ Head(cmdq).name # "repaint"
    /\ cmdq' = Tail(cmdq)
    /\ BeginGated(Head(cmdq), data)
    /\ UNCHANGED << settings, renderer, progress, stop_flag, chan, extq, worker,
                    rendering, samplers, connected, nintents, taint, last,
                    nlocations, committed, reset_buffer >>

\* a user event that reaches the gated part of the handler
UserEvent(c, d) ==
    /\ UserReady
    /\ nintents' = nintents + 1
    /\ BeginGated(c, d)
    /\ UNCHANGED << settings, renderer, progress, stop_flag, chan, extq, cmdq, worker,
                    rendering, samplers, connected, taint, last, committed,
                    reset_buffer >>

\* the location text boxes are edited and set_location is submitted; a submission
\* the gate ignores is one without edits
UserSetLocation ==
    \/ /\ Accepted(data)
       /\ nlocations < MaxSetLocation
       /\ nlocations' = nlocations + 1
       /\ \E re \in RealStrings, im \in ImagStrings, z \in ZoomStrings,
             it \in IterationValues, rot \in RotationStrings :
              UserEvent(UserCommand("set_location", "unit", 0),
                        [data EXCEPT !.temporary_real = re, !.temporary_imag = im,
                                     !.temporary_zoom = z, !.temporary_iterations = it,
                                     !.temporary_rotation = rot])
    \/ /\ ~Accepted(data)
       /\ nlocations' = nlocations
       /\ UserEvent(UserCommand("set_location", "unit", 0), data)

UserSetIterations ==
    /\ \E n \in IterationValues :
          UserEvent(UserCommand("set_iterations", "i64", n), data)
    /\ UNCHANGED nlocations

\* KeyCode::KeyZ
UserKeyZ ==
    /\ UserEvent(UserCommand("multiply_zoom_level", "f64", "2.0"), data)
    /\ UNCHANGED nlocations

\* KeyCode::KeyR: new_rotate = (settings.get_float("rotate") + 15.0) % 360.0
KeyRRotation(s) == (s.rotate + 15) % 360

UserKeyR ==
    /\ UserEvent(UserCommand("set_rotation", "f64", KeyRRotation(settings)), data)
    /\ UNCHANGED nlocations

\* Event::MouseDown with the left or the right button; a left click lands on some
\* point of the plane
UserMouseDown ==
    /\ \/ \E re \in RealStrings, im \in ImagStrings :
             UserEvent(UserCommand("MouseDown", "Left", <<re, im>>), data)
       \/ UserEvent(UserCommand("MouseDown", "Right", <<>>), data)
    /\ UNCHANGED nlocations

\* a set_image_size command with some dimensions
UserSetImageSize ==
    /\ \E dimensions \in ImageSizes :
          UserEvent(UserCommand("set_image_size", "(i64, i64)", dimensions), data)
    /\ UNCHANGED nlocations

\* KeyCode::KeyT and KeyCode::KeyY
UserKeyT ==
    /\ UserEvent(UserCommand("multiply_image_size", "f64", "0.5"), data)
    /\ UNCHANGED nlocations

UserKeyY ==
    /\ UserEvent(UserCommand("multiply_image_size", "f64", "2.0"), data)
    /\ UNCHANGED nlocations

\* KeyCode::KeyN
UserKeyN ==
    /\ UserEvent(UserCommand("native_image_size", "unit", 0), data)
    /\ UNCHANGED nlocations

\* the palette boxes are edited and set_offset_division is submitted
UserSetOffsetDivision ==
    /\ \E division \in DivisionStrings, offset \in OffsetStrings :
          UserEvent(UserCommand("set_offset_division", "unit", 0),
                    [data EXCEPT !.temporary_iteration_division = division,
                                 !.temporary_iteration_offset = offset])
    /\ UNCHANGED nlocations

\* commands::OPEN_FILE with the file the dialog returned
UserOpenFile ==
    /\ \E file \in Files : UserEvent(UserCommand("OPEN_FILE", "FileInfo", file), data)
    /\ UNCHANGED nlocations

\* ---------------------------------------------------------------- paint

\* FractalWidget::paint is called after request_paint() and finds reset_buffer
\* set: it goes for the renderer lock
PaintBegin ==
    /\ UIReady
    /\ reset_buffer
    /\ ui' = [pc |-> "paint", ev |-> NoCommand]
    /\ UNCHANGED << settings, renderer, progress, locks, data, stop_flag, chan, extq,
                    cmdq, worker, rendering, samplers, connected, nintents, taint,
                    last, nlocations, committed, reset_buffer >>

PaintLocked_NoLock == TRUE

\* paint: `let renderer = data.renderer.lock().unwrap();` returns
PaintLocked == locks.renderer = "free"

\* paint: self.buffer = renderer.data_export.rgb.clone(); self.reset_buffer =
\* false; the guard is dropped at the end of the block
PaintCopy ==
    /\ ui.pc = "paint"
    /\ PaintLocked
    /\ reset_buffer' = FALSE
    /\ ui' = [pc |-> "idle", ev |-> NoCommand]
    /\ UNCHANGED << settings, renderer, progress, locks, data, stop_flag, chan, extq,
                    cmdq, worker, rendering, samplers, connected, nintents, taint,
                    last, nlocations, committed >>

\* ---------------------------------------------------- gated handler bodies

\* `let mut renderer = data.renderer.lock().unwrap();` has returned and the body
\* of the handler for (name, ty) runs
InBody(name, ty) ==
    /\ ui.pc = "locked"
    /\ ui.ev.name = name
    /\ ui.ev.ty = ty
    /\ locks.renderer = "free"

\* the handler returns: both guards are dropped, the submitted commands are queued
Done(submitted) ==
    /\ ui' = [pc |-> "idle", ev |-> NoCommand]
    /\ locks' = [locks EXCEPT !.settings = "free"]
    /\ cmdq' = cmdq \o submitted

\* history: a user event starts a new record, a chained command extends it
Track(c) ==
    IF c.user
        THEN [ name |-> c.name, arg |-> c.arg, settings |-> settings,
               renderer |-> renderer, data |-> data, steps |-> <<c>>,
               sends |-> <<>>, repaints |-> 0 ]
        ELSE [last EXCEPT !.steps = Append(@, c)]

\* set_iterations: `*iterations as usize == renderer.data_export.maximum_iteration`
SetIterationsUnchanged(n, r) == n = r.data_export_maximum_iteration

SetIterationsRegenerates_Export(n, r) == n <= r.data_export_maximum_iteration

\* set_iterations: `*iterations as usize <= renderer.maximum_iteration`
SetIterationsRegenerates(n, r) == n <= r.maximum_iteration

HandleSetIterations ==
    /\ InBody("set_iterations", "i64")
    /\ LET n == ui.ev.arg
           t == Track(ui.ev)
       IN  IF SetIterationsUnchanged(n, renderer)
             THEN /\ Done(<<>>)
                  /\ last' = t
                  /\ UNCHANGED << settings, data, renderer,
                    nlocations, committed, reset_buffer >>
           ELSE IF SetIterationsRegenerates(n, renderer)
             THEN /\ settings' = [settings EXCEPT !.iterations = n]
                  /\ data' = [data EXCEPT !.temporary_iterations = n]
                  /\ renderer' = [renderer EXCEPT !.data_export_maximum_iteration = n]
                  /\ Done(<< Command("repaint", "unit", 0) >>)
                  /\ last' = [t EXCEPT !.repaints = @ + 1]
           ELSE   /\ settings' = [settings EXCEPT !.iterations = n]
                  /\ data' = [data EXCEPT !.temporary_iterations = n]
                  /\ Done(<< Command("reset_renderer_full", "unit", 0) >>)
                  /\ last' = t
                  /\ UNCHANGED renderer
    /\ UNCHANGED << progress, stop_flag, chan, extq, worker, rendering, samplers,
                    connected, nintents, taint,
                    nlocations, committed, reset_buffer >>

ZoomReusesReference_Reversed(new_zoom, current_exponent) ==
    new_zoom.exponent >= current_exponent

\* set_location: `new_zoom.exponent <= current_exponent`
ZoomReusesReference(new_zoom, current_exponent) == new_zoom.exponent <= current_exponent

LocationUnchanged_RealOnly(s, d) == s.real = d.temporary_real

\* set_location: `current_real == data.temporary_real &&
\* current_imag == data.temporary_imag`
LocationUnchanged(s, d) == s.real = d.temporary_real /\ s.imag = d.temporary_imag

RotationIterationsUnchanged_NoEarlyReturn(s, d) == FALSE

\* set_location: `current_rotation == data.temporary_rotation &&
\* current_iterations == data.temporary_iterations`
RotationIterationsUnchanged(s, d) ==
    /\ F64ToString(s.rotate) = d.temporary_rotation
    /\ s.iterations = d.temporary_iterations

\* set_location: the branch the handler takes
SetLocationBranch(s, d, r) ==
    LET current_rotation == F64ToString(s.rotate)
    IN  IF LocationUnchanged(s, d)
          THEN IF to_uppercase(s.zoom) = to_uppercase(d.temporary_zoom)
                 THEN IF RotationIterationsUnchanged(s, d)
                        THEN "nothing"
                      ELSE IF s.iterations = d.temporary_iterations
                        THEN "rotation"
                      ELSE IF current_rotation = d.temporary_rotation
                        THEN "iterations"
                      ELSE IF d.temporary_iterations < r.maximum_iteration
                        THEN "rotation_iterations"
                      ELSE "full"
               ELSE IF ZoomReusesReference(
                           string_to_extended(to_uppercase(d.temporary_zoom)),
                           r.center_reference_zoom.exponent)
                 THEN "zoom_decreased"
               ELSE "full"
        ELSE "full"

\* set_location: what the branch writes to the settings store
SetLocationSettings(b, s, d) ==
    CASE b = "zoom_decreased" -> [s EXCEPT !.zoom = d.temporary_zoom]
      [] b = "rotation_iterations" -> [s EXCEPT !.iterations = d.temporary_iterations]
      [] b = "full" -> [ s EXCEPT !.real = d.temporary_real,
                                  !.imag = d.temporary_imag,
                                  !.zoom = d.temporary_zoom,
                                  !.rotate = ParseF64(d.temporary_rotation),
                                  !.iterations = d.temporary_iterations ]
      [] OTHER -> s

\* set_location: what the branch writes to the renderer
SetLocationRenderer(b, d, r) ==
    CASE b = "zoom_decreased" ->
             [r EXCEPT !.zoom = string_to_extended(to_uppercase(d.temporary_zoom))]
      [] b = "rotation_iterations" ->
             [r EXCEPT !.maximum_iteration = d.temporary_iterations]
      [] OTHER -> r

\* set_location: the command the branch submits
SetLocationSubmit(b, d) ==
    CASE b = "nothing" -> <<>>
      [] b = "rotation" ->
             << Command("set_rotation", "f64", ParseF64(d.temporary_rotation)) >>
      [] b = "iterations" ->
             << Command("set_iterations", "i64", d.temporary_iterations) >>
      [] b = "rotation_iterations" ->
             \* the payload is the Result of parse(), not an f64
             << Command("set_rotation", "Result", ParseF64(d.temporary_rotation)) >>
      [] b = "zoom_decreased" -> << Command("reset_renderer_fast", "unit", 0) >>
      [] OTHER -> << Command("reset_renderer_full", "unit", 0) >>

HandleSetLocation ==
    /\ InBody("set_location", "unit")
    /\ LET b == SetLocationBranch(settings, data, renderer)
       IN  /\ settings' = SetLocationSettings(b, settings, data)
           /\ renderer' = SetLocationRenderer(b, data, renderer)
           /\ Done(SetLocationSubmit(b, data))
    /\ last' = Track(ui.ev)
    /\ UNCHANGED << progress, data, stop_flag, chan, extq, worker, rendering, samplers,
                    connected, nintents, taint,
                    nlocations, committed, reset_buffer >>

\* multiply_zoom_level: renderer.zoom.mantissa *= factor; renderer.zoom.reduce()
MultiplyZoom(z, factor) == Reduce(MultiplyMantissa(z, factor))

HandleMultiplyZoomLevel ==
    /\ InBody("multiply_zoom_level", "f64")
    /\ LET zoom == MultiplyZoom(renderer.zoom, ui.ev.arg)
       IN  /\ renderer' = [renderer EXCEPT !.zoom = zoom]
           /\ settings' = [settings EXCEPT !.zoom = extended_to_string_long(zoom)]
           /\ data' = [data EXCEPT !.temporary_zoom = extended_to_string_long(zoom)]
    /\ Done(<< Command("reset_renderer_fast", "unit", 0) >>)
    /\ last' = Track(ui.ev)
    /\ UNCHANGED << progress, stop_flag, chan, extq, worker, rendering, samplers,
                    connected, nintents, taint,
                    nlocations, committed, reset_buffer >>

HandleSetRotation ==
    /\ InBody("set_rotation", "f64")
    /\ LET new_rotate == NormalizeRotation(ui.ev.arg)
       IN  /\ settings' = [settings EXCEPT !.rotate = new_rotate]
           /\ data' = [data EXCEPT !.temporary_rotation = F64ToString(new_rotate)]
           /\ renderer' = [renderer EXCEPT !.rotate = ToRadians(new_rotate)]
    /\ Done(<< Command("reset_renderer_fast", "unit", 0) >>)
    /\ last' = Track(ui.ev)
    /\ UNCHANGED << progress, stop_flag, chan, extq, worker, rendering, samplers,
                    connected, nintents, taint,
                    nlocations, committed, reset_buffer >>

\* command.get::<f64>(Selector::new("set_rotation")) is None for a payload of
\* another type: no branch of the handler matches and event() returns
HandleUnmatched ==
    /\ InBody("set_rotation", "Result")
    /\ Done(<<>>)
    /\ last' = Track(ui.ev)
    /\ UNCHANGED << settings, renderer, progress, data, stop_flag, chan, extq, worker,
                    rendering, samplers, connected, nintents, taint,
                    nlocations, committed, reset_buffer >>

FastBecomesFull_Never(d) == FALSE

\* reset_renderer_fast: `if data.need_full_rerender`
FastBecomesFull(d) == d.need_full_rerender

HandleResetRendererFast ==
    /\ InBody("reset_renderer_fast", "unit")
    /\ IF FastBecomesFull(data)
         THEN /\ Done(<< Command("reset_renderer_full", "unit", 0) >>)
              /\ last' = Track(ui.ev)
              /\ UNCHANGED chan
         ELSE /\ chan' = Append(chan, "reset_renderer_fast")
              /\ Done(<<>>)
              /\ last' = [Track(ui.ev) EXCEPT !.sends = Append(@, "reset_renderer_fast")]
    /\ UNCHANGED << settings, renderer, progress, data, stop_flag, extq, worker,
                    rendering, samplers, connected, nintents, taint,
                    nlocations, committed, reset_buffer >>

HandleResetRendererFull ==
    /\ InBody("reset_renderer_full", "unit")
    /\ chan' = Append(chan, "reset_renderer_full")
    /\ Done(<<>>)
    /\ last' = [Track(ui.ev) EXCEPT !.sends = Append(@, "reset_renderer_full")]
    /\ UNCHANGED << settings, renderer, progress, data, stop_flag, extq, worker,
                    rendering, samplers, connected, nintents, taint,
                    nlocations, committed, reset_buffer >>

\* MouseDown, left button: zoom.mantissa *= 2.0; zoom.reduce(); the clicked point
\* becomes the location
HandleMouseDownLeft ==
    /\ InBody("MouseDown", "Left")
    /\ LET zoom == MultiplyZoom(renderer.zoom, "2.0")
           iterations == settings.iterations
       IN  /\ settings' = [ settings EXCEPT !.real = ui.ev.arg[1],
                                            !.imag = ui.ev.arg[2],
                                            !.zoom = extended_to_string_long(zoom),
                                            !.iterations = iterations ]
           /\ data' = [ data EXCEPT !.temporary_real = ui.ev.arg[1],
                                    !.temporary_imag = ui.ev.arg[2],
                                    !.temporary_zoom = extended_to_string_long(zoom),
                                    !.temporary_iterations = iterations ]
           /\ renderer' = [renderer EXCEPT !.maximum_iteration = iterations,
                                           !.zoom = zoom]
    /\ Done(<< Command("reset_renderer_full", "unit", 0) >>)
    /\ last' = Track(ui.ev)
    /\ UNCHANGED << progress, stop_flag, chan, extq, worker, rendering, samplers,
                    connected, nintents, taint,
                    nlocations, committed, reset_buffer >>

\* MouseDown, right button: submit multiply_zoom_level 0.5
HandleMouseDownRight ==
    /\ InBody("MouseDown", "Right")
    /\ Done(<< Command("multiply_zoom_level", "f64", "0.5") >>)
    /\ last' = Track(ui.ev)
    /\ UNCHANGED << settings, renderer, progress, data, stop_flag, chan, extq, worker,
                    rendering, samplers, connected, nintents, taint,
                    nlocations, committed, reset_buffer >>

\* multiply_image_size: the scaled size is submitted as set_image_size
HandleMultiplyImageSize ==
    /\ InBody("multiply_image_size", "f64")
    /\ LET new_width == MultiplySize(settings.image_width, ui.ev.arg)
           new_height == MultiplySize(settings.image_height, ui.ev.arg)
       IN  Done(<< Command("set_image_size", "(i64, i64)", <<new_width, new_height>>) >>)
    /\ last' = Track(ui.ev)
    /\ UNCHANGED << settings, renderer, progress, data, stop_flag, chan, extq, worker,
                    rendering, samplers, connected, nintents, taint,
                    nlocations, committed, reset_buffer >>

\* native_image_size: the window size is submitted as set_image_size
HandleNativeImageSize ==
    /\ InBody("native_image_size", "unit")
    /\ Done(<< Command("set_image_size", "(i64, i64)",
                       <<settings.window_width, settings.window_height>>) >>)
    /\ last' = Track(ui.ev)
    /\ UNCHANGED << settings, renderer, progress, data, stop_flag, chan, extq, worker,
                    rendering, samplers, connected, nintents, taint,
                    nlocations, committed, reset_buffer >>

ImageSizeUnchanged_WidthOnly(dimensions, r) == dimensions[1] = r.image_width

\* set_image_size: `dimensions.0 as usize == renderer.image_width &&
\* dimensions.1 as usize == renderer.image_height`
ImageSizeUnchanged(dimensions, r) ==
    dimensions[1] = r.image_width /\ dimensions[2] = r.image_height

HandleSetImageSize ==
    /\ InBody("set_image_size", "(i64, i64)")
    /\ LET dimensions == ui.ev.arg
       IN  IF ImageSizeUnchanged(dimensions, renderer)
             THEN /\ Done(<<>>)
                  /\ UNCHANGED << settings, renderer >>
             ELSE /\ settings' = [settings EXCEPT !.image_width = dimensions[1],
                                                  !.image_height = dimensions[2]]
                  /\ renderer' = [renderer EXCEPT !.image_width = dimensions[1],
                                                  !.image_height = dimensions[2]]
                  /\ Done(<< Command("reset_renderer_fast", "unit", 0) >>)
    /\ last' = Track(ui.ev)
    /\ UNCHANGED << progress, data, stop_flag, chan, extq, worker, rendering, samplers,
                    connected, nintents, taint,
                    nlocations, committed, reset_buffer >>

OffsetDivisionUnchanged_Either(current_division, current_offset, new_division, new_offset) ==
    current_division = new_division \/ current_offset = new_offset

\* set_offset_division: `current_division == new_division &&
\* current_offset == new_offset`
OffsetDivisionUnchanged(current_division, current_offset, new_division, new_offset) ==
    current_division = new_division /\ current_offset = new_offset

\* set_offset_division: new_offset is the offset box modulo the palette length
NewOffset(d, r) ==
    ParseF32(d.temporary_iteration_offset) % PaletteLen(r.data_export_palette)

HandleSetOffsetDivision ==
    /\ InBody("set_offset_division", "unit")
    /\ LET current_division == settings.iteration_division
           current_offset == settings.palette_offset
           new_division == ParseF32(data.temporary_iteration_division)
           new_offset == NewOffset(data, renderer)
           t == Track(ui.ev)
       IN  IF OffsetDivisionUnchanged(current_division, current_offset,
                                      new_division, new_offset)
             THEN /\ Done(<<>>)
                  /\ last' = t
                  /\ UNCHANGED << settings, renderer, data >>
             ELSE /\ data' = [data EXCEPT
                        !.temporary_iteration_division = F32ToString(new_division),
                        !.temporary_iteration_offset = F32ToString(new_offset)]
                  /\ settings' = [settings EXCEPT !.iteration_division = new_division,
                                                  !.palette_offset = new_offset]
                  /\ renderer' = [renderer EXCEPT
                        !.data_export_iteration_division = new_division,
                        !.data_export_iteration_offset = new_offset]
                  /\ Done(<< Command("repaint", "unit", 0) >>)
                  /\ last' = [t EXCEPT !.repaints = @ + 1]
    /\ UNCHANGED << progress, stop_flag, chan, extq, worker, rendering, samplers,
                    connected, nintents, taint,
                    nlocations, committed, reset_buffer >>

\* OPEN_FILE: reset_renderer is set by each of the location keys the file defines
FileResetsRenderer_PaletteToo(file) == file.keys \cap (LocationKeys \cup {"palette"}) # {}

FileResetsRenderer(file) == file.keys \cap LocationKeys # {}

\* OPEN_FILE: the value of a key, or the one the handler takes when the file lacks it
FileValue(file, key, default) == IF key \in file.keys THEN file[key] ELSE default

\* settings.merge(new_settings): every key of the file overlays the settings
Merge(s, file) ==
    [ k \in DOMAIN s |-> IF k \in file.keys THEN file[k] ELSE s[k] ]

HandleOpenFile ==
    /\ InBody("OPEN_FILE", "FileInfo")
    /\ LET file == ui.ev.arg
           reset_renderer == FileResetsRenderer(file)
           has_palette == "palette" \in file.keys
           located ==
               [ settings EXCEPT
                   !.real = FileValue(file, "real", @),
                   !.imag = FileValue(file, "imag", @),
                   !.zoom = FileValue(file, "zoom", @),
                   !.iterations = FileValue(file, "iterations", @),
                   !.rotate = FileValue(file, "rotate", 0) ]
           coloured ==
               IF has_palette
                 THEN [ located EXCEPT
                          !.iteration_division = FileValue(file, "iteration_division", 1),
                          !.palette_offset = FileValue(file, "palette_offset", 0),
                          !.palette = file.palette ]
                 ELSE located
           repaints == has_palette /\ ~reset_renderer
       IN  /\ settings' = Merge(coloured, file)
           /\ data' =
                 [ data EXCEPT
                     !.temporary_real = FileValue(file, "real", @),
                     !.temporary_imag = FileValue(file, "imag", @),
                     !.temporary_zoom = FileValue(file, "zoom", @),
                     !.temporary_iterations = FileValue(file, "iterations", @),
                     !.temporary_rotation = F64ToString(FileValue(file, "rotate", 0)),
                     !.temporary_iteration_division =
                         IF ~has_palette THEN @
                         ELSE IF "iteration_division" \in file.keys
                           THEN F32ToString(file.iteration_division) ELSE "1.0",
                     !.temporary_iteration_offset =
                         IF ~has_palette THEN @
                         ELSE IF "palette_offset" \in file.keys
                           THEN F32ToString(file.palette_offset) ELSE "0.0" ]
           /\ renderer' =
                 IF has_palette
                   THEN [ renderer EXCEPT
                            !.data_export_palette = file.palette,
                            !.data_export_iteration_division = coloured.iteration_division,
                            !.data_export_iteration_offset = coloured.palette_offset ]
                   ELSE renderer
           /\ Done((IF repaints THEN << Command("repaint", "unit", 0) >> ELSE <<>>)
                   \o (IF reset_renderer
                         THEN << Command("reset_renderer_full", "unit", 0) >>
                         ELSE <<>>))
           /\ last' = [Track(ui.ev) EXCEPT !.repaints = @ + (IF repaints THEN 1 ELSE 0)]
    /\ UNCHANGED << progress, stop_flag, chan, extq, worker, rendering, samplers,
                    connected, nintents, taint,
                    nlocations, committed, reset_buffer >>

\* ------------------------------------------------------------ specification

\* the worker thread and the render it runs
WorkerNext ==
    \/ WorkerRecv
    \/ WorkerLock
    \/ WorkerNew
    \/ WorkerStart
    \/ RenderEnter
    \/ RenderAdvance
    \/ RenderCancelled
    \/ RenderCompleted
    \/ WorkerFinish

SamplerNext ==
    \/ \E s \in samplers : SamplerPoll(s)
    \/ \E s \in samplers : SamplerSubmit(s)

\* the events and commands every one of the specifications below involves
WidgetNext ==
    \/ HandleStopRendering
    \/ HandleRepaintExt
    \/ HandleUpdateProgress
    \/ UIChainCommand
    \/ HandleResetRendererFull

\* The program from its start, with a user who rotates the view (R) and stops
\* renders: the orchestration of the UI thread, the worker and the samplers.
Next ==
    \/ WindowConnected
    \/ UserKeyR
    \/ HandleSetRotation
    \/ HandleResetRendererFast
    \/ WidgetNext
    \/ WorkerNext
    \/ SamplerNext

Spec == Init /\ [][Next]_vars

\* The program once its first render is over and every event of it is handled:
\* completed (need_full_rerender = FALSE) or stopped by the user
\* (need_full_rerender = TRUE). Both states are reachable under Spec.
InitRendered ==
    /\ settings = StartSettings
    /\ renderer = FractalRendererNew(StartSettings)
    /\ locks = [settings |-> "free", renderer |-> "free"]
    /\ stop_flag = 0
    /\ chan = <<>>
    /\ extq = <<>>
    /\ cmdq = <<>>
    /\ ui = [pc |-> "idle", ev |-> NoCommand]
    /\ rendering = {}
    /\ samplers = {}
    /\ connected = TRUE
    /\ nlocations = 0
    /\ last = NoIntent
    /\ committed = FractalRendererNew(StartSettings)
    /\ reset_buffer = FALSE
    /\ \E stopped \in BOOLEAN :
          /\ data = [InitData EXCEPT !.temporary_stage = 3,
                                     !.need_full_rerender = stopped]
          /\ worker = [ pc |-> "recv", cmd |-> "reset_renderer_full", rid |-> 1,
                        cancelled |-> stopped ]
          /\ progress = IF stopped THEN ProgressReset
                        ELSE [series_validation |-> 2, glitched_maximum |-> 0]
          /\ nintents = IF stopped THEN 1 ELSE 0
          /\ taint = IF stopped THEN "busy" ELSE "none"

\* The program after its first render, with a user who rotates the view and stops
\* renders.
NextRotate ==
    \/ UserKeyR
    \/ HandleSetRotation
    \/ HandleResetRendererFast
    \/ WidgetNext
    \/ WorkerNext
    \/ SamplerNext

NextPaint ==
    \/ UserKeyR
    \/ UserMouseDown
    \/ HandleSetRotation
    \/ HandleResetRendererFast
    \/ HandleMouseDownLeft
    \/ HandleMouseDownRight
    \/ HandleMultiplyZoomLevel
    \/ PaintBegin
    \/ PaintCopy
    \/ WidgetNext
    \/ WorkerNext
    \/ SamplerNext

\* The rendered view with rotations and mouse clicks, and the widget painted
\* after each repaint.
SpecPaint == InitRendered /\ [][NextPaint]_vars

\* the renders such a behaviour can start after the first: one for each intent
SamplerIds == 2..(MaxIntents + 1)

\* one iteration of the loop of the sampler of render r
SamplerStep(r) ==
    \E s \in samplers : s.rid = r /\ (SamplerPoll(s) \/ SamplerSubmit(s))

\* That program with every sampler thread scheduled again and again (a sampler
\* sleeps 20 ms between two iterations of its loop).
SpecFair ==
    InitRendered /\ [][NextRotate]_vars /\ \A r \in SamplerIds : WF_vars(SamplerStep(r))

\* The program after its first render, driven by the location form.
NextLocation ==
    \/ UserSetLocation
    \/ HandleSetLocation
    \/ HandleSetIterations
    \/ HandleSetRotation
    \/ HandleResetRendererFast
    \/ HandleRepaintCmd
    \/ HandleUnmatched
    \/ WidgetNext
    \/ WorkerNext
    \/ SamplerNext

SpecLocation == InitRendered /\ [][NextLocation]_vars

\* The program after its first render, driven by the keyboard, the mouse and the
\* iteration box.
NextView ==
    \/ UserSetIterations
    \/ UserKeyZ
    \/ UserKeyR
    \/ UserMouseDown
    \/ HandleSetIterations
    \/ HandleRepaintCmd
    \/ HandleMultiplyZoomLevel
    \/ HandleSetRotation
    \/ HandleResetRendererFast
    \/ HandleMouseDownLeft
    \/ HandleMouseDownRight
    \/ WidgetNext
    \/ WorkerNext
    \/ SamplerNext

SpecView == InitRendered /\ [][NextView]_vars

\* The program after its first render, driven by the image size commands.
NextImage ==
    \/ UserSetImageSize
    \/ UserKeyT
    \/ UserKeyY
    \/ UserKeyN
    \/ HandleMultiplyImageSize
    \/ HandleNativeImageSize
    \/ HandleSetImageSize
    \/ HandleResetRendererFast
    \/ WidgetNext
    \/ WorkerNext
    \/ SamplerNext

SpecImage == InitRendered /\ [][NextImage]_vars

\* The program after its first render, driven by the palette boxes and by the
\* files the user opens.
NextPalette ==
    \/ UserSetOffsetDivision
    \/ UserOpenFile
    \/ HandleSetOffsetDivision
    \/ HandleOpenFile
    \/ HandleRepaintCmd
    \/ WidgetNext
    \/ WorkerNext
    \/ SamplerNext

SpecPalette == InitRendered /\ [][NextPalette]_vars

\* The program once its first render was stopped by the user and every event of it
\* is handled: the repaint found the stop flag raised and set need_full_rerender.
InitStopped ==
    /\ settings = StartSettings
    /\ renderer = FractalRendererNew(StartSettings)
    /\ progress = ProgressReset
    /\ locks = [settings |-> "free", renderer |-> "free"]
    /\ data = [InitData EXCEPT !.temporary_stage = 3, !.need_full_rerender = TRUE]
    /\ stop_flag = 0
    /\ chan = <<>>
    /\ extq = <<>>
    /\ cmdq = <<>>
    /\ ui = [pc |-> "idle", ev |-> NoCommand]
    /\ worker = [pc |-> "recv", cmd |-> "reset_renderer_full", rid |-> 1,
                 cancelled |-> TRUE]
    /\ rendering = {}
    /\ samplers = {}
    /\ connected = TRUE
    /\ nintents = 0
    /\ nlocations = 0
    /\ taint = "busy"
    /\ last = NoIntent
    /\ committed = FractalRendererNew(StartSettings)
    /\ reset_buffer = FALSE

\* The program after a stopped first render, with a user who changes the
\* iteration count and rotates the view.
NextStopped ==
    \/ UserSetIterations
    \/ UserKeyR
    \/ HandleSetIterations
    \/ HandleSetRotation
    \/ HandleResetRendererFast
    \/ HandleRepaintCmd
    \/ WidgetNext
    \/ WorkerNext
    \/ SamplerNext

SpecStopped == InitStopped /\ [][NextStopped]_vars

\* A repaint is about to be handled: submitted by the worker at the end of the
\* first render or by a handler, with the stop counter at any of its values.
InitRepaint ==
    /\ settings = StartSettings
    /\ renderer = FractalRendererNew(StartSettings)
    /\ progress = ProgressReset
    /\ locks = [settings |-> "free", renderer |-> "free"]
    /\ stop_flag \in 0..(UsizeModulus - 1)
    /\ \E stage \in 0..3, need_full \in BOOLEAN :
          data = [InitData EXCEPT !.temporary_stage = stage,
                                  !.need_full_rerender = need_full]
    /\ chan = <<>>
    /\ \/ extq = << RepaintEvent(1) >> /\ cmdq = <<>>
       \/ extq = <<>> /\ cmdq = << Command("repaint", "unit", 0) >>
    /\ ui = [pc |-> "idle", ev |-> NoCommand]
    /\ worker = [pc |-> "recv", cmd |-> "reset_renderer_full", rid |-> 1,
                 cancelled |-> stop_flag >= 1]
    /\ rendering = {}
    /\ samplers = {}
    /\ connected = TRUE
    /\ nintents = 0
    /\ nlocations = 0
    /\ taint = IF stop_flag >= 1 THEN "busy" ELSE "none"
    /\ last = NoIntent
    /\ committed = FractalRendererNew(StartSettings)
    /\ reset_buffer = FALSE

NextRepaint ==
    \/ HandleRepaintExt
    \/ HandleRepaintCmd
    \/ HandleStopRendering

\* The repaint handler on every value of the stop counter.
SpecRepaint == InitRepaint /\ [][NextRepaint]_vars

\* ------------------------------------------------- the sampler's arithmetic

\* the largest reference_maximum and glitched_maximum of the renders considered
MaxReferenceMaximum == 2
MaxGlitched == 2

\* renderer.progress with every counter the sampler reads, at the start of a render
CountersStart ==
    [ reference |-> 0, series_approximation |-> 0, reference_maximum |-> 0,
      series_validation |-> 0, iteration |-> 0, glitched_maximum |-> 0 ]

\* let total_pixels = (renderer.image_width * renderer.image_height) as f64;
TotalPixels(r) == r.image_width * r.image_height

\* what the renderer keeps true of its counters
CountersAllowed(c, total_pixels) ==
    /\ c.reference <= c.reference_maximum
    /\ c.series_approximation <= c.reference_maximum
    /\ c.reference_maximum <= MaxReferenceMaximum
    /\ c.series_validation <= 2
    /\ c.iteration <= total_pixels
    /\ c.glitched_maximum <= MaxGlitched

\* the sampler's `progress`, as the exact quotient num / den of the f64 expression;
\* den = 0 is a division by zero (NaN or an infinity)
SampleProgress(c, total_pixels) ==
    IF c.series_validation < 2
      THEN [ num |-> 9 * c.reference + 9 * c.series_approximation
                       + c.series_validation * c.reference_maximum,
             den |-> 20 * c.reference_maximum ]
    ELSE IF c.glitched_maximum # 0
      THEN [ num |-> c.iteration - (total_pixels - c.glitched_maximum),
             den |-> c.glitched_maximum ]
    ELSE [ num |-> c.iteration, den |-> total_pixels ]

\* a render is running, its counters at their start, its sampler spawned
InitSampler ==
    /\ settings = StartSettings
    /\ renderer = FractalRendererNew(StartSettings)
    /\ progress = CountersStart
    /\ locks = [settings |-> "free", renderer |-> "worker"]
    /\ data = InitData
    /\ stop_flag = 0
    /\ chan = <<>>
    /\ extq = <<>>
    /\ cmdq = <<>>
    /\ ui = [pc |-> "idle", ev |-> NoCommand]
    /\ worker = [pc |-> "render", cmd |-> "reset_renderer_full", rid |-> 1,
                 cancelled |-> FALSE]
    /\ rendering = {1}
    /\ samplers = { [rid |-> 1, pc |-> "poll", stopped |-> FALSE, live |-> TRUE,
                     frozen |-> ProgressReset, stage |-> 0] }
    /\ connected = TRUE
    /\ nintents = 0
    /\ nlocations = 0
    /\ taint = "none"
    /\ last = NoIntent
    /\ committed = FractalRendererNew(StartSettings)
    /\ reset_buffer = FALSE

\* render_frame increments one of its counters
CountersAdvance ==
    /\ worker.pc = "render"
    /\ \E k \in DOMAIN progress :
          /\ progress' = [progress EXCEPT ![k] = @ + 1]
          /\ CountersAllowed(progress', TotalPixels(renderer))
    /\ UNCHANGED << settings, renderer, locks, data, stop_flag, chan, extq, cmdq, ui,
                    worker, rendering, samplers, connected, nintents, taint, last,
                    nlocations, committed, reset_buffer >>

\* the sampler reads the counters and submits (stage, progress, ..)
SamplerEmit ==
    /\ extq = <<>>
    /\ \E s \in samplers :
          /\ ~s.stopped
          /\ extq' = << [ type |-> "update_progress", stage |-> SampleStage(progress),
                          progress |-> SampleProgress(progress, TotalPixels(renderer)),
                          rid |-> s.rid ] >>
          /\ samplers' = (samplers \ {s}) \cup
                            {[s EXCEPT !.stage = SampleStage(progress)]}
    /\ UNCHANGED << settings, renderer, progress, locks, data, stop_flag, chan, cmdq,
                    ui, worker, rendering, connected, nintents, taint, last,
                    nlocations, committed, reset_buffer >>

NextSampler ==
    \/ CountersAdvance
    \/ SamplerEmit
    \/ HandleUpdateProgress

\* One render seen from its sampler: the renderer advances the counters, the
\* sampler derives (stage, progress) from them, the widget takes the snapshots.
SpecSampler == InitSampler /\ [][NextSampler]_vars

\* ------------------------------------------------------------------ claims

\* the handler chain of the last user intent has run to its end
ChainDone == ui.pc = "idle" /\ cmdq = <<>>

\* the worker has submitted the stage-3 snapshot of render r
FinalSubmitted(r) ==
    /\ r >= 1
    /\ \/ r < worker.rid
       \/ r = worker.rid /\ worker.pc \notin {"enter", "render", "finish"}

\* C1: at most one render_frame call is in progress at any time, and the worker
\* takes a request from the channel only when no render_frame call is in progress.
C1_OneRenderAtATime ==
    /\ [](Cardinality(rendering) <= 1)
    /\ [][Len(chan') < Len(chan) => rendering = {}]_vars

\* C1 witness: a render is running while another request waits in the channel.
C1_Witness == rendering # {} /\ chan # <<>>

\* C2: once the worker has submitted the stage-3 snapshot of a render, every
\* sampler snapshot of that render still in the UI's queue is ahead of it.
C2_FinalSnapshotIsLast ==
    \A i \in 1..Len(extq) :
        ( /\ extq[i].type = "update_progress"
          /\ extq[i].stage # 3
          /\ FinalSubmitted(extq[i].rid) )
        => \E k \in (i + 1)..Len(extq) :
               /\ extq[k].type = "update_progress"
               /\ extq[k].stage = 3
               /\ extq[k].rid = extq[i].rid

\* C3: a request is in the channel only while the worker is idle at recv(), and it
\* is the only one.
C3_SendOnlyWhenIdle ==
    chan # <<>> => (Len(chan) = 1 /\ worker.pc = "recv")

\* C4: whenever the worker enters render_frame, the stop flag is 0.
C4_RenderStartsWithFlagZero ==
    [][(worker.pc = "enter" /\ worker'.pc = "render") => stop_flag = 0]_vars

\* C5: a stop_rendering handled while the worker is idle (no render running, no
\* request waiting) has no effect on the next render: a Fast request asked for is
\* sent as Fast, and no render is cancelled by it.
C5_IdleCancelHasNoEffect ==
    [][ /\ ( /\ taint = "idle"
             /\ InBody("reset_renderer_fast", "unit")
             /\ ui'.pc = "idle" )
           => chan' = Append(chan, "reset_renderer_fast")
        /\ ( /\ taint = "idle"
             /\ worker.pc = "render"
             /\ worker'.pc = "finish" )
           => ~worker'.cancelled ]_vars

\* C6: every stop_rendering handled while the worker is inside render_frame
\* increments the stop flag.
C6_CancelDuringRenderIncrements ==
    [][(HandleStopRendering /\ worker.pc = "render")
          => stop_flag' = (stop_flag + 1) % UsizeModulus]_vars

\* the last intent was a set_location with real and imag unchanged and the zoom
\* string changed
ZoomChanged ==
    /\ last.name = "set_location"
    /\ last.settings.real = last.data.temporary_real
    /\ last.settings.imag = last.data.temporary_imag
    /\ to_uppercase(last.settings.zoom) # to_uppercase(last.data.temporary_zoom)

E_new == string_to_extended(to_uppercase(last.data.temporary_zoom)).exponent

E_ref == last.renderer.center_reference_zoom.exponent

\* the command the handler of the last intent submitted
Selected == IF Len(last.steps) >= 2 THEN last.steps[2].name ELSE "none"

\* the request a reset_renderer_fast sends, given need_full_rerender
FastRequest(need_full) ==
    IF need_full THEN "reset_renderer_full" ELSE "reset_renderer_fast"

\* C7 as stated: E_new >= E_ref selects the Fast path, E_new < E_ref the Full path.
C7_Original ==
    (ZoomChanged /\ ChainDone) =>
        Selected = IF E_new >= E_ref THEN "reset_renderer_fast"
                   ELSE "reset_renderer_full"

\* C7 amended: for a set_location with real and imag unchanged and the zoom string
\* changed, E_new <= E_ref selects the Fast path (reset_renderer_fast, which sends
\* a Fast request, or a Full one when need_full_rerender is set) and
\* E_new > E_ref selects the Full path (one Full request).
C7_ZoomDirection ==
    (ZoomChanged /\ ChainDone) =>
        IF E_new <= E_ref
          THEN /\ Selected = "reset_renderer_fast"
               /\ last.sends = << FastRequest(last.data.need_full_rerender) >>
          ELSE /\ Selected = "reset_renderer_full"
               /\ last.sends = << "reset_renderer_full" >>

\* C7 witness: a shallower zoom was submitted and served by a Fast request.
C7_Witness ==
    /\ ZoomChanged
    /\ ChainDone
    /\ E_new < E_ref
    /\ last.sends = << "reset_renderer_fast" >>

\* C8: a Fast render never runs with a zoom deeper than the zoom at which the
\* reference orbit was computed.
C8_DeeperZoomIsFull ==
    (worker.pc = "render" /\ worker.cmd = "reset_renderer_fast")
        => ~Deeper(renderer.zoom, renderer.center_reference_zoom)

\* the last intent was set_iterations(n), accepted, with n different from the
\* export maximum
IterationsChanged ==
    /\ last.name = "set_iterations"
    /\ last.arg # last.renderer.data_export_maximum_iteration

\* C9: set_iterations(n) with n <= the renderer's computed maximum sends no request
\* and issues exactly one repaint; with n above it, it sends exactly one Full
\* request and issues no repaint.
C9_SetIterations ==
    (IterationsChanged /\ ChainDone) =>
        IF last.arg <= last.renderer.maximum_iteration
          THEN last.sends = <<>> /\ last.repaints = 1
          ELSE last.sends = << "reset_renderer_full" >> /\ last.repaints = 0

\* C9 witness: after 1000 -> 500 (regenerated), 2000 was requested and sent as Full.
C9_Witness ==
    /\ IterationsChanged
    /\ ChainDone
    /\ last.arg = 2000
    /\ last.renderer.data_export_maximum_iteration = 500
    /\ last.renderer.maximum_iteration = 1000
    /\ last.sends = << "reset_renderer_full" >>

\* the last intent was a set_location in which only the rotation differs
RotationOnly ==
    /\ last.name = "set_location"
    /\ last.settings.real = last.data.temporary_real
    /\ last.settings.imag = last.data.temporary_imag
    /\ to_uppercase(last.settings.zoom) = to_uppercase(last.data.temporary_zoom)
    /\ last.settings.iterations = last.data.temporary_iterations
    /\ F64ToString(last.settings.rotate) # last.data.temporary_rotation

NewRotation == NormalizeRotation(ParseF64(last.data.temporary_rotation))

RotationCommitted ==
    /\ settings.rotate = NewRotation
    /\ renderer.rotate = ToRadians(NewRotation)

\* C10 as stated: a rotation-only set_location sends one Fast request, with the
\* new rotation committed to the settings store and the renderer.
C10_Original ==
    (RotationOnly /\ ChainDone) =>
        /\ last.sends = << "reset_renderer_fast" >>
        /\ RotationCommitted

\* C10 amended: a rotation-only set_location commits the new rotation to the
\* settings store and the renderer and sends one request: Fast, or Full when
\* need_full_rerender is set (the previous render was stopped).
C10_RotationOnly ==
    (RotationOnly /\ ChainDone) =>
        /\ last.sends = << FastRequest(last.data.need_full_rerender) >>
        /\ RotationCommitted

\* C10 witness: a rotation-only set_location was served by a Fast request.
C10_Witness ==
    /\ RotationOnly
    /\ ChainDone
    /\ last.sends = << "reset_renderer_fast" >>
    /\ RotationCommitted

\* the last intent was a set_location whose real or imag text differs from the
\* committed settings
PanChanged ==
    /\ last.name = "set_location"
    /\ \/ last.settings.real # last.data.temporary_real
       \/ last.settings.imag # last.data.temporary_imag

\* C11: a set_location whose real or imag differs from the committed settings
\* sends exactly one Full request and no Fast one, whatever the zoom, the rotation
\* and the iteration count are.
C11_PanChangedIsFull ==
    (PanChanged /\ ChainDone) => last.sends = << "reset_renderer_full" >>

\* C11 witness: the pan changed together with a shallower zoom, the rotation and
\* the iteration count, and one Full request was sent.
C11_Witness ==
    /\ PanChanged
    /\ ChainDone
    /\ E_new < E_ref
    /\ last.settings.iterations # last.data.temporary_iterations
    /\ last.settings.rotate # ParseF64(last.data.temporary_rotation)
    /\ last.sends = << "reset_renderer_full" >>

\* the location form holds the committed settings: real and imag as texts, the
\* zoom up to the case of its exponent letter, the rotation as the text the
\* committed rotation is shown with, the iteration count
Unedited(s, d) ==
    /\ s.real = d.temporary_real
    /\ s.imag = d.temporary_imag
    /\ to_uppercase(s.zoom) = to_uppercase(d.temporary_zoom)
    /\ F64ToString(s.rotate) = d.temporary_rotation
    /\ s.iterations = d.temporary_iterations

FieldsCommitted ==
    CASE last.name = "set_location" ->
           /\ last.settings.real # last.data.temporary_real
                 => settings.real = last.data.temporary_real
           /\ last.settings.imag # last.data.temporary_imag
                 => settings.imag = last.data.temporary_imag
           /\ to_uppercase(last.settings.zoom) # to_uppercase(last.data.temporary_zoom)
                 => settings.zoom = last.data.temporary_zoom
           /\ F64ToString(last.settings.rotate) # last.data.temporary_rotation
                 => NormalizeRotation(settings.rotate)
                      = NormalizeRotation(ParseF64(last.data.temporary_rotation))
           /\ last.settings.iterations # last.data.temporary_iterations
                 => settings.iterations = last.data.temporary_iterations
      [] last.name = "set_iterations" -> settings.iterations = last.arg
      [] last.name = "set_rotation" -> settings.rotate = NormalizeRotation(last.arg)
      [] last.name \in {"multiply_zoom_level", "MouseDown"} ->
           settings.zoom = extended_to_string_long(renderer.zoom)
      [] OTHER -> TRUE

\* C15: whenever the widget sends a request on the worker channel, every field
\* changed by the intent that caused it is already in the settings store.
C15_CommitBeforeEnqueue ==
    [][(Len(chan') > Len(chan) /\ last.name # "none") => FieldsCommitted]_vars

\* the last intent led to a request or a repaint
Triggered == last.sends # <<>> \/ last.repaints > 0

\* C17: once the handlers of a set_location have run, either every field it
\* changed is committed and a request or repaint was triggered, or nothing is
\* committed: the settings store and the renderer are as before.
C17_AtomicMutation ==
    (last.name = "set_location" /\ ChainDone) =>
        \/ FieldsCommitted /\ Triggered
        \/ /\ settings = last.settings
           /\ ~Triggered
           /\ renderer = last.renderer


\* the dimensions the set_image_size command of the last intent carried: the
\* intent itself, or the command a size shortcut (T, Y, N) submitted
SetImageSizeArg ==
    IF last.name = "set_image_size" THEN last.arg
    ELSE IF /\ last.name \in {"multiply_image_size", "native_image_size"}
            /\ Len(last.steps) >= 2
         THEN last.steps[2].arg
    ELSE <<>>

SizeDiffers ==
    /\ SetImageSizeArg # <<>>
    /\ SetImageSizeArg # <<last.renderer.image_width, last.renderer.image_height>>

SizeSame ==
    /\ SetImageSizeArg # <<>>
    /\ SetImageSizeArg = <<last.renderer.image_width, last.renderer.image_height>>

SizeCommitted ==
    /\ <<settings.image_width, settings.image_height>> = SetImageSizeArg
    /\ <<renderer.image_width, renderer.image_height>> = SetImageSizeArg

\* C13 as stated: a set_image_size with dimensions that differ from the renderer's
\* commits them to the settings and the renderer and sends one Fast request; with
\* the same dimensions it changes nothing and sends nothing.
C13_Original ==
    ChainDone =>
        /\ SizeDiffers => SizeCommitted /\ last.sends = << "reset_renderer_fast" >>
        /\ SizeSame => /\ settings = last.settings
                       /\ renderer = last.renderer
                       /\ last.sends = <<>>

\* C13: a set_image_size with dimensions that differ from the renderer's commits
\* them to the settings and the renderer and sends exactly one request: Fast, or
\* Full when need_full_rerender was set (the previous render was stopped); with the
\* same dimensions it changes nothing and sends nothing.
C13_SetImageSize ==
    ChainDone =>
        /\ SizeDiffers =>
              /\ SizeCommitted
              /\ last.sends = << FastRequest(last.data.need_full_rerender) >>
        /\ SizeSame => /\ settings = last.settings
                       /\ renderer = last.renderer
                       /\ last.sends = <<>>

\* the height alone differs, and the Fast request went out
C13_Witness ==
    /\ ChainDone
    /\ last.name = "set_image_size"
    /\ SizeDiffers
    /\ last.arg[1] = last.renderer.image_width
    /\ SizeCommitted
    /\ last.sends = << "reset_renderer_fast" >>


\* the last intent changed the colour mapping only: set_offset_division with a
\* division or an offset (modulo the palette length) other than the stored one, or
\* a file with a palette and no location key
PaletteOnly ==
    \/ /\ last.name = "set_offset_division"
       /\ \/ ParseF32(last.data.temporary_iteration_division)
                # last.settings.iteration_division
          \/ NewOffset(last.data, last.renderer) # last.settings.palette_offset
    \/ /\ last.name = "OPEN_FILE"
       /\ "palette" \in last.arg.keys
       /\ last.arg.keys \cap LocationKeys = {}

\* the colour output is regenerated from the new parameters
ColourRegenerated ==
    /\ renderer.data_export_iteration_division = settings.iteration_division
    /\ renderer.data_export_iteration_offset = settings.palette_offset
    /\ renderer.data_export_palette = settings.palette
    /\ last.name = "set_offset_division" =>
          /\ settings.iteration_division
                = ParseF32(last.data.temporary_iteration_division)
          /\ settings.palette_offset = NewOffset(last.data, last.renderer)
    /\ last.name = "OPEN_FILE" => settings.palette = last.arg.palette

\* C14: a change of the palette or colour-mapping parameters only sends no render
\* request to the worker; it regenerates the colour output and issues exactly one
\* repaint.
C14_PaletteOnlyRepaints ==
    (PaletteOnly /\ ChainDone) =>
        /\ last.sends = <<>>
        /\ last.repaints = 1
        /\ ColourRegenerated

\* the offset alone was changed, and the one repaint has been handled
C14_Witness ==
    /\ ChainDone
    /\ last.name = "set_offset_division"
    /\ ParseF32(last.data.temporary_iteration_division) = last.settings.iteration_division
    /\ NewOffset(last.data, last.renderer) # last.settings.palette_offset
    /\ settings.palette_offset = NewOffset(last.data, last.renderer)
    /\ last.repaints = 1
    /\ last.sends = <<>>
    /\ chan = <<>>


\* every command of the last intent is handled, the render it asked for (if any)
\* has completed, and its final snapshot and repaint are handled
Settled ==
    /\ last.name # "none"
    /\ ChainDone
    /\ chan = <<>>
    /\ worker.pc = "recv"
    /\ ~worker.cancelled
    /\ extq = <<>>
    /\ data.temporary_stage = 3

\* the settings store and the renderer agree on every field they share
Agree(s, r) ==
    /\ r.center_reference_c = <<s.real, s.imag>>
    /\ r.zoom = string_to_extended(to_uppercase(s.zoom))
    /\ r.maximum_iteration = s.iterations
    /\ r.rotate = ToRadians(s.rotate)
    /\ r.image_width = s.image_width
    /\ r.image_height = s.image_height

\* C16: after accepted mutations, once the corresponding render or local update
\* has completed, the settings store and the renderer agree on real, imag, zoom,
\* iterations (renderer.maximum_iteration), rotate, image_width and image_height.
C16_SettingsRendererAgree == Settled => Agree(settings, renderer)


\* the part of the renderer a render computes: the reference and where it is
Reference(r) == << r.center_reference_c, r.center_reference_zoom >>

\* C18: a render cancelled mid-way does not corrupt the previously committed
\* renderer state: when a cancelled Fast or Full render returns, the renderer the
\* UI sees holds what the last completed render left, not a replaced one.
C18_CancelKeepsCommitted ==
    [][(worker.pc = "finish" /\ worker'.pc = "recv" /\ worker.cancelled)
          => Reference(renderer') = Reference(committed)]_vars


\* C20: within a single render, Full or Fast, the stages of the snapshots delivered
\* to the UI never decrease, from the first sample taken after the sampler is
\* spawned to the final stage-3 snapshot. The event sink delivers in the order of
\* submission; a sampler is stopped when the worker submits the stage-3 snapshot.
C20_StageMonotone ==
    [][\A s \in samplers : \A t \in samplers' :
          (s.rid = t.rid /\ ~t.stopped) => s.stage <= t.stage]_vars


\* a fraction num / den that is a number of [0, 1]
InUnit(f) == f.den > 0 /\ 0 <= f.num /\ f.num <= f.den

\* C19: for all sequences of counter updates the renderer may perform (counters
\* monotone, reference and series_approximation <= reference_maximum, iteration <=
\* total_pixels), every fraction the sampler emits is in [0, 1], in each of the
\* three branches.
C19_FractionInUnit ==
    \A i \in 1..Len(extq) : InUnit(extq[i].progress)


\* C21: when the sampler reads reference_maximum = 0 while series_validation < 2 it
\* divides by nothing and emits the fraction 0: no undefined or non-finite fraction
\* ever reaches the sink.
C21_NoDivisionByZero ==
    \A i \in 1..Len(extq) : extq[i].progress.den # 0


\* C22: the worker holds neither the renderer lock nor the settings lock while it
\* is inside render_frame.
C22_NoLockAcrossRender ==
    worker.pc = "render" => (locks.renderer # "worker" /\ locks.settings # "worker")


\* the UI thread is inside an event handler, past settings.lock(), and waits in
\* renderer.lock() for the worker's guard
UIBlocked == ui.pc = "locked" /\ locks.renderer = "worker"

\* C23: the UI thread never blocks on the worker: no event handler waits for the
\* settings or the renderer lock while the worker is executing a render.
C23_UINeverBlocks == ~(UIBlocked /\ worker.pc = "render")


\* the events a step adds to the sink, when the step only appends
Submitted == IF Len(extq') >= Len(extq) /\ SubSeq(extq', 1, Len(extq)) = extq
               THEN SubSeq(extq', Len(extq) + 1, Len(extq'))
               ELSE <<>>

IsFinal(e) == e.type = "repaint" \/ (e.type = "update_progress" /\ e.stage = 3)

\* C24: every request sent on the channel is consumed exactly once, in the order
\* sent, by the worker at recv(); and for each one, when render_frame has returned
\* (completed or cancelled), the worker stops its sampler, then submits exactly one
\* stage-3 snapshot, then exactly one repaint, and nothing else submits either.
C24_ConsumedOnceThenFinalSequence ==
    [][ /\ chan' # chan =>
              \/ \E c \in {"reset_renderer_full", "reset_renderer_fast"} :
                    chan' = Append(chan, c)
              \/ /\ chan # <<>>
                 /\ chan' = Tail(chan)
                 /\ worker.pc = "recv"
                 /\ worker'.pc = "lock"
                 /\ worker'.cmd = Head(chan)
        /\ (worker.pc # "recv" /\ worker'.pc = "recv") =>
              /\ worker.pc = "finish"
              /\ worker.rid \notin rendering
              /\ \A s \in samplers' : s.rid = worker.rid => s.stopped
              /\ Len(Submitted) = 2
              /\ Submitted[1].type = "update_progress"
              /\ Submitted[1].stage = 3
              /\ Submitted[1].rid = worker.rid
              /\ Submitted[2].type = "repaint"
              /\ Submitted[2].rid = worker.rid
        /\ (\E i \in 1..Len(Submitted) : IsFinal(Submitted[i])) =>
              (worker.pc = "finish" /\ worker'.pc = "recv")
      ]_vars

\* two requests have been consumed; the second render was cancelled and its
\* stage-3 snapshot and repaint wait in the sink, in that order
C24_Witness ==
    /\ worker.rid = 2
    /\ worker.pc = "recv"
    /\ worker.cancelled
    /\ chan = <<>>
    /\ Len(extq) >= 2
    /\ extq[Len(extq) - 1] = ProgressEvent(3, 2)
    /\ extq[Len(extq)] = RepaintEvent(2)


\* C25: under fair scheduling every sampler thread terminates once the render it
\* was spawned for has returned and the worker has sent its stop signal.
C25_SamplersTerminate ==
    \A r \in SamplerIds :
        (\E s \in samplers : s.rid = r /\ s.stopped)
            ~> ~(\E s \in samplers : s.rid = r)

\* the sampler of the second render has been told to stop and is still alive
C25_Witness ==
    \E s \in samplers : s.rid = 2 /\ s.stopped /\ s.pc = "sample"


\* C26: at most one sampler thread is alive at any time: the sampler of a render
\* has terminated before the sampler of the next render is spawned.
C26_OneSamplerAlive == Cardinality(samplers) <= 1


\* C27: if the renderer was stopped during a worker render (the stop flag was
\* raised when that render's repaint was handled), the next render request sent to
\* the worker is reset_renderer_full, whatever intents are handled in between,
\* including regenerate-only intents that issue their own repaint. Under
\* SpecStopped the first render was stopped, and the first request sent is the
\* next one.
C27_FullAfterStop ==
    [][(worker.rid = 1 /\ worker.pc = "recv" /\ chan = <<>> /\ chan' # <<>>)
          => chan' = << "reset_renderer_full" >>]_vars


\* a mouse click or a command other than stop_rendering, repaint and
\* update_progress reaches the widget
GatedEvent ==
    \/ UserSetLocation
    \/ UserSetIterations
    \/ UserKeyZ
    \/ UserKeyR
    \/ UserMouseDown
    \/ UserSetImageSize
    \/ UserKeyT
    \/ UserKeyY
    \/ UserKeyN
    \/ UserSetOffsetDivision
    \/ UserOpenFile
    \/ UIChainCommand

\* C28: while temporary_stage is not 3, a mouse click and every command other than
\* stop_rendering, repaint and update_progress is ignored: no handler body runs,
\* and the settings store, the renderer, the stop flag, need_full_rerender and the
\* worker channel are left unchanged.
C28_IgnoredWhileRendering ==
    [][(data.temporary_stage # 3 /\ GatedEvent) =>
          /\ ui'.pc = "idle"
          /\ locks' = locks
          /\ settings' = settings
          /\ renderer' = renderer
          /\ stop_flag' = stop_flag
          /\ data'.need_full_rerender = data.need_full_rerender
          /\ chan' = chan]_vars

\* the first of two user events asked for the Full render that is running; the
\* other arrived with temporary_stage at 0 and left no trace
C28_Witness ==
    /\ nintents = 2
    /\ last.name = "MouseDown"
    /\ last.sends = << "reset_renderer_full" >>
    /\ data.temporary_stage = 0
    /\ worker.pc = "render"
    /\ worker.rid = 2
    /\ chan = <<>>
    /\ cmdq = <<>>
    /\ ui.pc = "idle"
    /\ stop_flag = 0


\* C29: handling repaint with the stop flag at v >= 1 adds 2^w - v to the w-bit
\* counter with wrap-around, which leaves the flag at exactly 0 for every v in
\* 1..2^w-1, and sets need_full_rerender; with v = 0 the flag stays 0 and
\* need_full_rerender is cleared.
C29_RepaintResetsFlag ==
    [][(HandleRepaintExt \/ HandleRepaintCmd) =>
          /\ stop_flag' = 0
          /\ data'.need_full_rerender = (stop_flag >= 1)]_vars

\* a repaint has been handled with the flag raised: the flag is back at 0 and
\* need_full_rerender is set
C29_Witness ==
    /\ extq = <<>>
    /\ cmdq = <<>>
    /\ stop_flag = 0
    /\ data.need_full_rerender
    /\ taint = "busy"


\* C30: the UI thread and the worker never deadlock on the two mutexes: no
\* reachable state has the UI thread holding the settings lock and waiting for
\* the renderer lock while the worker holds the renderer lock and waits for the
\* settings lock.
UIWaitsForRenderer ==
    ui.pc = "locked" /\ locks.settings = "ui" /\ locks.renderer = "worker"

WorkerWaitsForSettings ==
    worker.pc = "new" /\ locks.renderer = "worker" /\ locks.settings = "ui"

C30_NoLockOrderDeadlock == ~(UIWaitsForRenderer /\ WorkerWaitsForSettings)


\* the handlers of the last intent wrote a changed value into the settings store
WroteSettings == last.name # "none" /\ settings # last.settings

FollowUps == { "set_rotation", "reset_renderer_fast", "reset_renderer_full" }

\* a handler of the last intent submitted a follow-up command, which has come
\* back to the widget
FollowUpSubmitted ==
    \E i \in 2..Len(last.steps) : last.steps[i].name \in FollowUps

\* C31: no render is lost: every intent whose handler writes a changed value and
\* then submits a follow-up set_rotation, reset_renderer_fast or
\* reset_renderer_full has caused a render request on the worker channel once
\* its chain of commands has been handled; the follow-up is neither dropped by
\* the gate nor left unhandled.
C31_NoRenderLost ==
    (ChainDone /\ WroteSettings /\ FollowUpSubmitted) => last.sends # <<>>


\* nothing is running or waiting: the worker is at recv() with no request, no
\* sampler thread is alive and the UI has handled every event and command
Quiescent ==
    /\ worker.pc = "recv"
    /\ chan = <<>>
    /\ samplers = {}
    /\ extq = <<>>
    /\ cmdq = <<>>
    /\ ui.pc = "idle"

\* C32: the UI is never left locked out: in every quiescent state after at least
\* one render, temporary_stage is 3, so new intents pass the gate.
C32_QuiescentAcceptsIntents ==
    (Quiescent /\ worker.rid >= 1) => data.temporary_stage = 3


\* the UI thread gets the renderer guard and runs the body of a handler (a
\* mutation handler or MouseDown) or the copy in paint
UIRendererAccess ==
    /\ ui.pc \in {"locked", "paint"}
    /\ ui'.pc = "idle"

\* C33: while a render_frame call is in progress no UI handler reads or writes
\* the renderer: every access of the UI (mutation handlers, MouseDown, paint)
\* happens before the worker acquired the renderer lock for the render or after
\* it released it.
C33_NoUIAccessDuringRender ==
    [][UIRendererAccess => (worker.pc # "render" /\ locks.renderer # "worker")]_vars

\* paint was called while render_frame runs and waits for the renderer lock
C33_Witness ==
    /\ ui.pc = "paint"
    /\ worker.pc = "render"
    /\ locks.renderer = "worker"


\* the handler of OPEN_FILE runs for a file with none of the location keys
OpensUnlocatedFile ==
    /\ ui.pc = "locked"
    /\ ui.ev.name = "OPEN_FILE"
    /\ ui.ev.arg.keys \cap LocationKeys = {}
    /\ ui'.pc = "idle"

LocationFields(s) == << s.real, s.imag, s.zoom, s.iterations, s.rotate >>

LocationTemporaries(d) ==
    << d.temporary_real, d.temporary_imag, d.temporary_zoom, d.temporary_iterations,
       d.temporary_rotation >>

\* C34: OPEN_FILE for a file that defines none of real, imag, zoom, iterations
\* and rotate (a palette-only file, say) leaves the location fields of the
\* settings store and the matching temporaries of the UI as they were and sends
\* no render request.
C34_UnlocatedFileKeepsLocation ==
    [][OpensUnlocatedFile =>
          /\ LocationFields(settings') = LocationFields(settings)
          /\ LocationTemporaries(data') = LocationTemporaries(data)
          /\ chan' = chan
          /\ \A i \in 1..Len(cmdq') :
                cmdq'[i].name \notin {"reset_renderer_full", "reset_renderer_fast"}]_vars

====
